---- MODULE Spec2Model ----
(***************************************************************************)
(* Model of map.js (bikewatching): the map 'load' handler that adds the    *)
(* bike-lane layers, loads the station list and the trip log, aggregates   *)
(* per-station traffic and binds it to SVG circles, and the slider and map *)
(* event handlers that recompute and reposition those circles.             *)
(*                                                                         *)
(* Values that JavaScript leaves undefined are modelled as options: the    *)
(* empty set is undefined/null, a singleton {v} is the value v.            *)
(* Numbers that are not integers are modelled exactly as fractions         *)
(* [num, den]; the three outputs of the quantizing scale are written in    *)
(* halves (0, 1, 2 stand for 0, 0.5, 1).                                   *)
(***************************************************************************)
EXTENDS Integers, Sequences, FiniteSets, TLC

VARIABLES
    pc,                 \* position of the async 'load' handler
    mapSources,         \* sources added to the map (map.addSource)
    mapLayers,          \* layers added to the map (map.addLayer)
    stations,           \* let stations (line 146)
    trips,              \* let trips (line 149)
    sliderValue,        \* timeSlider.value, a string of characters
    currentTimeFilter,  \* let currentTimeFilter (line 202)
    selectedTimeText,   \* selectedTime.textContent
    anyTimeDisplay,     \* anyTimeLabel.style.display
    radiusDomain,       \* radiusScale.domain()
    radiusRange,        \* radiusScale.range()
    circles,            \* the circle elements, in document order
    filteredTrips,      \* const filteredTrips of the last updateScatterPlot
    filteredStations,   \* const filteredStations of the last updateScatterPlot
    mapListeners,       \* map events updatePositions is registered for
    sliderListener,     \* whether the slider 'input' listener is registered
    view,               \* the map viewport (pan offset and zoom factor)
    aggregated,         \* computeStationTraffic has been called
    positioned          \* updatePositions has been called

vars == <<pc, mapSources, mapLayers, stations, trips, sliderValue,
          currentTimeFilter, selectedTimeText, anyTimeDisplay, radiusDomain,
          radiusRange, circles, filteredTrips, filteredStations, mapListeners,
          sliderListener, view, aggregated, positioned>>

\* ---------------------------------------------------------------- bounds

MaxStations == 2
MaxTrips == 3
MaxPan == 1

\* ---------------------------------------------------------------- config

BOSTON_BIKE_LANES_URL ==
    "https://bostonopendata-boston.opendata.arcgis.com/datasets/boston::existing-bike-network-2022.geojson"

CAMBRIDGE_BIKE_LANES_URL ==
    "https://raw.githubusercontent.com/cambridgegis/cambridgegis_data/main/Recreation/Bike_Facilities/RECREATION_BikeFacilities.geojson"

bikeLanePaint ==
    [lineColor |-> "#32D400", lineWidth |-> 3, lineOpacity |-> <<6, 10>>]

\* ---------------------------------------------------------------- inputs

\* Station records as the station feed delivers them (unique short_name).
StationPool ==
    { [short_name |-> "A", lon |-> 1, lat |-> 4],
      [short_name |-> "B", lon |-> 2, lat |-> 5],
      [short_name |-> "C", lon |-> 3, lat |-> 6] }

\* Rows of the trip CSV; started_at and ended_at are still text, written
\* here as <<hours, minutes, seconds>>.
TripRowPool ==
    { [start_station_id |-> "A", end_station_id |-> "B",
       started_at |-> <<9, 0, 59>>, ended_at |-> <<12, 30, 0>>],
      [start_station_id |-> "A", end_station_id |-> "A",
       started_at |-> <<8, 55, 0>>, ended_at |-> <<8, 59, 30>>],
      [start_station_id |-> "B", end_station_id |-> "A",
       started_at |-> <<23, 30, 0>>, ended_at |-> <<23, 30, 0>>],
      [start_station_id |-> "ZZZ", end_station_id |-> "B",
       started_at |-> <<1, 0, 0>>, ended_at |-> <<11, 0, 0>>] }

\* Values the slider can take: "-1" and minutes of the day.
SliderPool ==
    { <<"-", "1">>, <<"0">>, <<"6", "0", "0">>, <<"1", "3", "8", "0">> }

SeqsUpTo(S, n) == UNION { [1..k -> S] : k \in 0..n }

StationLists ==
    { s \in SeqsUpTo(StationPool, MaxStations) :
        \A i, j \in DOMAIN s : i # j => s[i].short_name # s[j].short_name }

TripRowLists == SeqsUpTo(TripRowPool, MaxTrips)

Views == [pan : 0..MaxPan, zoom : 1..2]

\* ---------------------------------------------------------------- helpers

Abs(x) == IF x < 0 THEN -x ELSE x

\* a ?? b
Nullish(opt, default) == IF opt = {} THEN default ELSE CHOOSE v \in opt : TRUE

DigitValue(c) ==
    CASE c = "0" -> 0 [] c = "1" -> 1 [] c = "2" -> 2 [] c = "3" -> 3
      [] c = "4" -> 4 [] c = "5" -> 5 [] c = "6" -> 6 [] c = "7" -> 7
      [] c = "8" -> 8 [] c = "9" -> 9

RECURSIVE DecimalValue(_)
DecimalValue(s) ==
    IF s = <<>> THEN 0
    ELSE 10 * DecimalValue(SubSeq(s, 1, Len(s) - 1)) + DigitValue(s[Len(s)])

\* Number(timeSlider.value) on the decimal integer strings a range input has
Number(s) == IF s[1] = "-" THEN -DecimalValue(Tail(s)) ELSE DecimalValue(s)

\* new Date(text): the parsed timestamp
NewDate(text) == [hours |-> text[1], minutes |-> text[2], seconds |-> text[3]]

\* the row conversion given to d3.csv
ParseTrip(row) ==
    [row EXCEPT !.started_at = NewDate(row.started_at),
                !.ended_at = NewDate(row.ended_at)]

formatTime(minutes) ==
    LET h == (minutes \div 60) % 24
        m == minutes % 60
    IN [hour |-> IF h % 12 = 0 THEN 12 ELSE h % 12,
        minute |-> m,
        period |-> IF h < 12 THEN "AM" ELSE "PM"]

minutesSinceMidnight(date) == date.hours * 60 + date.minutes

\* filterTripsByTime with the window bound taken exclusive (< 60)
filterTripsByTime_exclusive(T, timeFilter) ==
    IF timeFilter = -1 THEN T
    ELSE SelectSeq(T, LAMBDA trip :
            LET startedMinutes == minutesSinceMidnight(trip.started_at)
                endedMinutes == minutesSinceMidnight(trip.ended_at)
            IN \/ Abs(startedMinutes - timeFilter) < 60
               \/ Abs(endedMinutes - timeFilter) < 60)

\* filterTripsByTime without the early return for -1
filterTripsByTime_noSentinel(T, timeFilter) ==
    SelectSeq(T, LAMBDA trip :
        LET startedMinutes == minutesSinceMidnight(trip.started_at)
            endedMinutes == minutesSinceMidnight(trip.ended_at)
        IN \/ Abs(startedMinutes - timeFilter) <= 60
           \/ Abs(endedMinutes - timeFilter) <= 60)

filterTripsByTime(T, timeFilter) ==
    IF timeFilter = -1 THEN T
    ELSE SelectSeq(T, LAMBDA trip :
            LET startedMinutes == minutesSinceMidnight(trip.started_at)
                endedMinutes == minutesSinceMidnight(trip.ended_at)
            IN \/ Abs(startedMinutes - timeFilter) <= 60
               \/ Abs(endedMinutes - timeFilter) <= 60)

\* d3.rollup(values, v => v.length, key): a map from each key that occurs
\* to the number of values having it; keys is the key of each value in turn.
RECURSIVE rollupCount(_)
rollupCount(keys) ==
    IF keys = <<>> THEN [k \in {} |-> 0]
    ELSE LET groups == rollupCount(SubSeq(keys, 1, Len(keys) - 1))
             key == keys[Len(keys)]
         IN IF key \in DOMAIN groups
            THEN [groups EXCEPT ![key] = @ + 1]
            ELSE [k \in DOMAIN groups \cup {key} |->
                    IF k = key THEN 1 ELSE groups[k]]

\* InternMap.get(key): undefined when the key is absent
MapGet(m, key) == IF key \in DOMAIN m THEN {m[key]} ELSE {}

\* {...station, arrivals, departures, totalTraffic}: a new object
Annotated(station, sArrivals, sDepartures) ==
    [short_name |-> station.short_name, lon |-> station.lon,
     lat |-> station.lat, arrivals |-> sArrivals,
     departures |-> sDepartures, totalTraffic |-> sArrivals + sDepartures]

\* computeStationTraffic with the two rollups keyed the wrong way round
computeStationTraffic_swapped(S, T) ==
    LET departures == rollupCount([i \in DOMAIN T |-> T[i].end_station_id])
        arrivals == rollupCount([i \in DOMAIN T |-> T[i].start_station_id])
    IN [result |->
            [i \in DOMAIN S |->
                Annotated(S[i], Nullish(MapGet(arrivals, S[i].short_name), 0),
                          Nullish(MapGet(departures, S[i].short_name), 0))],
        stations |-> S]

\* computeStationTraffic writing the counts into the station objects it was
\* given and returning those
computeStationTraffic_inPlace(S, T) ==
    LET departures == rollupCount([i \in DOMAIN T |-> T[i].start_station_id])
        arrivals == rollupCount([i \in DOMAIN T |-> T[i].end_station_id])
        written ==
            [i \in DOMAIN S |->
                Annotated(S[i], Nullish(MapGet(arrivals, S[i].short_name), 0),
                          Nullish(MapGet(departures, S[i].short_name), 0))]
    IN [result |-> written, stations |-> written]

\* The call's return value (result) together with the stations array as the
\* call leaves it (stations); the trips are only read, by d3.rollup.
computeStationTraffic(S, T) ==
    LET departures == rollupCount([i \in DOMAIN T |-> T[i].start_station_id])
        arrivals == rollupCount([i \in DOMAIN T |-> T[i].end_station_id])
    IN [result |->
            [i \in DOMAIN S |->
                LET id == S[i].short_name
                    sArrivals == Nullish(MapGet(arrivals, id), 0)
                    sDepartures == Nullish(MapGet(departures, id), 0)
                IN Annotated(S[i], sArrivals, sDepartures)],
        stations |-> S]

\* d3.max(values): undefined for an empty array
d3max(values) ==
    IF values = <<>> THEN {}
    ELSE {CHOOSE m \in {values[i] : i \in DOMAIN values} :
            \A i \in DOMAIN values : values[i] <= m}

\* ------------------------------------------------------------ scales

FracLE(a, b) == a.num * b.den <= b.num * a.den

\* d3.scaleQuantize().domain([0, 1]).range([0, 0.5, 1]); the range in halves
stationFlowRange == <<0, 1, 2>>

\* the scale's thresholds: ((i + 1) * x1 - (i - n) * x0) / (n + 1), i < n,
\* for x0 = 0, x1 = 1 and n = Len(range) - 1
stationFlowThresholds ==
    LET n == Len(stationFlowRange) - 1
    IN [i \in 1..n |-> [num |-> (i * 1) - ((i - 1 - n) * 0), den |-> n + 1]]

\* range[bisectRight(thresholds, x)]
stationFlow(x) ==
    LET below == {i \in DOMAIN stationFlowThresholds :
                    FracLE(stationFlowThresholds[i], x)}
    IN stationFlowRange[Cardinality(below) + 1]

\* DepartureRatio falling back to 0 for a station without traffic
DepartureRatio_zero(d) ==
    IF d.totalTraffic # 0
    THEN [num |-> d.departures, den |-> d.totalTraffic]
    ELSE [num |-> 0, den |-> 1]

\* d.totalTraffic ? d.departures / d.totalTraffic : 0.5
DepartureRatio(d) ==
    IF d.totalTraffic # 0
    THEN [num |-> d.departures, den |-> d.totalTraffic]
    ELSE [num |-> 1, den |-> 2]

\* radiusScale(x): range[0] + sqrt(x / domain[1]) * (range[1] - range[0]).
\* The square root is left unevaluated: the radius is recorded as the
\* argument together with the domain and range in force.
radiusScaleAt(x, domain, range) == [of |-> x, domain |-> domain, range |-> range]

\* RangeFor without the reset to [0, 25]: the range in force is kept
RangeFor_noReset(timeFilter, range) ==
    IF timeFilter = -1 THEN range ELSE <<3, 50>>

\* radiusScale.range(...) of updateScatterPlot
RangeFor(timeFilter, range) ==
    IF timeFilter = -1 THEN <<0, 25>> ELSE <<3, 50>>

TitleText(d) == <<d.totalTraffic, "trips", d.departures, "departures",
                  d.arrivals, "arrivals">>

\* ------------------------------------------------------------ markers

\* map.project(LngLat(lon, lat)) under viewport v
getCoords(station, v) ==
    [cx |-> station.lon * v.zoom + v.pan, cy |-> station.lat * v.zoom + v.pan]

\* circles.attr('cx', ...).attr('cy', ...)
updatePositions(nodes, v) ==
    [i \in DOMAIN nodes |->
        [nodes[i] EXCEPT !.cx = getCoords(nodes[i].datum, v).cx,
                         !.cy = getCoords(nodes[i].datum, v).cy]]

\* svg.selectAll('circle').data(...).enter().append('circle')... : one circle
\* per datum, with its radius, title and departure ratio
EnterCircles(data, domain, range) ==
    [i \in DOMAIN data |->
        [datum |-> data[i],
         r |-> radiusScaleAt(data[i].totalTraffic, domain, range),
         opacity |-> <<8, 10>>,
         title |-> {TitleText(data[i])},
         departureRatio |-> stationFlow(DepartureRatio(data[i])),
         cx |-> 0, cy |-> 0]]

\* selection.data(data, d => d.short_name): a node is in the update selection
\* when it is the first node with its key and some datum has that key; it is
\* then bound to the first such datum.
InUpdate(nodes, data, i) ==
    /\ \A h \in 1..(i - 1) :
          nodes[h].datum.short_name # nodes[i].datum.short_name
    /\ \E j \in DOMAIN data : data[j].short_name = nodes[i].datum.short_name

BoundDatum(nodes, data, i) ==
    LET js == {j \in DOMAIN data :
                 data[j].short_name = nodes[i].datum.short_name}
    IN data[CHOOSE j \in js : \A k \in js : j <= k]

\* ------------------------------------------------------------ handlers
\* The functions declared inside the 'load' handler work on the handler's
\* variables; c is a record of those variables, and each function yields the
\* record as it is once the function returns.

Handler ==
    [stations |-> stations, trips |-> trips,
     currentTimeFilter |-> currentTimeFilter,
     selectedTimeText |-> selectedTimeText, anyTimeDisplay |-> anyTimeDisplay,
     radiusDomain |-> radiusDomain, radiusRange |-> radiusRange,
     circles |-> circles, filteredTrips |-> filteredTrips,
     filteredStations |-> filteredStations, view |-> view,
     aggregated |-> aggregated, positioned |-> positioned]

\* lines 209-236: rescale and rebind the circles to the aggregated stations
RenderStations(c, call, timeFilter) ==
    LET data == call.result
        maxTraffic ==
            Nullish(d3max([i \in DOMAIN data |-> data[i].totalTraffic]), 0)
        domain == <<0, IF maxTraffic # 0 THEN maxTraffic ELSE 1>>
        range == RangeFor(timeFilter, c.radiusRange)
        bound ==
            [i \in DOMAIN c.circles |->
                IF InUpdate(c.circles, data, i)
                THEN LET d == BoundDatum(c.circles, data, i)
                     IN [c.circles[i] EXCEPT
                           !.datum = d,
                           !.r = radiusScaleAt(d.totalTraffic, domain, range),
                           !.title = IF @ # {} THEN {TitleText(d)} ELSE @,
                           !.departureRatio = stationFlow(DepartureRatio(d))]
                ELSE c.circles[i]]
    IN [c EXCEPT !.stations = call.stations,
                 !.filteredStations = data,
                 !.radiusDomain = domain,
                 !.radiusRange = range,
                 !.circles = updatePositions(bound, c.view),
                 !.aggregated = TRUE,
                 !.positioned = TRUE]

updateScatterPlot(c, timeFilter) ==
    LET filtered == filterTripsByTime(c.trips, timeFilter)
    IN RenderStations([c EXCEPT !.filteredTrips = filtered],
                      computeStationTraffic(c.stations, filtered), timeFilter)

\* updateTimeDisplay rendering with the filter value it had before the event
updateTimeDisplay_stale(c, value) ==
    LET f == Number(value)
        shown ==
            IF f = -1
            THEN [c EXCEPT !.currentTimeFilter = f,
                           !.selectedTimeText = {},
                           !.anyTimeDisplay = "inline"]
            ELSE [c EXCEPT !.currentTimeFilter = f,
                           !.selectedTimeText = {formatTime(f)},
                           !.anyTimeDisplay = "none"]
    IN updateScatterPlot(shown, c.currentTimeFilter)

updateTimeDisplay(c, value) ==
    LET f == Number(value)
        shown ==
            IF f = -1
            THEN [c EXCEPT !.currentTimeFilter = f,
                           !.selectedTimeText = {},
                           !.anyTimeDisplay = "inline"]
            ELSE [c EXCEPT !.currentTimeFilter = f,
                           !.selectedTimeText = {formatTime(f)},
                           !.anyTimeDisplay = "none"]
    IN updateScatterPlot(shown, shown.currentTimeFilter)

\* lines 155-191: the first aggregation, the radius scale and the circles
DrawCircles(c) ==
    LET call == computeStationTraffic(c.stations, c.trips)
        stationsWithTraffic == call.result
        domain == <<0, d3max([i \in DOMAIN stationsWithTraffic |->
                                 stationsWithTraffic[i].totalTraffic])>>
        range == <<0, 25>>
    IN [c EXCEPT !.stations = call.stations,
                 !.radiusRange = range,
                 !.circles = updatePositions(
                     EnterCircles(stationsWithTraffic, domain, range), c.view),
                 !.aggregated = TRUE,
                 !.positioned = TRUE]

Commit(c) ==
    /\ stations' = c.stations
    /\ trips' = c.trips
    /\ currentTimeFilter' = c.currentTimeFilter
    /\ selectedTimeText' = c.selectedTimeText
    /\ anyTimeDisplay' = c.anyTimeDisplay
    /\ radiusDomain' = c.radiusDomain
    /\ radiusRange' = c.radiusRange
    /\ circles' = c.circles
    /\ filteredTrips' = c.filteredTrips
    /\ filteredStations' = c.filteredStations
    /\ aggregated' = c.aggregated
    /\ positioned' = c.positioned

handlerVars == <<stations, trips, currentTimeFilter, selectedTimeText,
                 anyTimeDisplay, radiusDomain, radiusRange, circles,
                 filteredTrips, filteredStations, aggregated, positioned>>

\* ------------------------------------------------------------ actions

Init ==
    /\ pc = "constructed"
    /\ mapSources = {}
    /\ mapLayers = {}
    /\ stations = <<>>
    /\ trips = <<>>
    /\ sliderValue = <<"-", "1">>
    /\ currentTimeFilter = -1
    /\ selectedTimeText = {}
    /\ anyTimeDisplay = "inline"
    /\ radiusDomain = <<0, 1>>
    /\ radiusRange = <<0, 1>>
    /\ circles = <<>>
    /\ filteredTrips = <<>>
    /\ filteredStations = <<>>
    /\ mapListeners = {}
    /\ sliderListener = FALSE
    /\ view = [pan |-> 0, zoom |-> 1]
    /\ aggregated = FALSE
    /\ positioned = FALSE

\* lines 109-139: the bike-lane sources and layers
LaneSources ==
    {[id |-> "boston_route", type |-> "geojson",
      data |-> BOSTON_BIKE_LANES_URL]}
    \cup
    IF CAMBRIDGE_BIKE_LANES_URL #
         "https://raw.githubusercontent.com/cambridgegis/cambridgegis_data/main/Recreation/Bike_Facilities/RECREATION_BikeFacilities.geojson"
    THEN {[id |-> "cambridge_route", type |-> "geojson",
           data |-> CAMBRIDGE_BIKE_LANES_URL]}
    ELSE {}

LaneLayers ==
    {[id |-> "boston-bike-lanes", type |-> "line", source |-> "boston_route",
      paint |-> bikeLanePaint]}
    \cup
    IF CAMBRIDGE_BIKE_LANES_URL #
         "https://raw.githubusercontent.com/cambridgegis/cambridgegis_data/main/Recreation/Bike_Facilities/RECREATION_BikeFacilities.geojson"
    THEN {[id |-> "cambridge-bike-lanes", type |-> "line",
           source |-> "cambridge_route", paint |-> bikeLanePaint]}
    ELSE {}

\* the listeners registered before the first await instead of after the last
ListenersBeforeLoad_early ==
    [map |-> {"move", "zoom", "resize", "moveend"}, slider |-> TRUE]

\* listeners in place while the handler waits for its first load
ListenersBeforeLoad == [map |-> {}, slider |-> FALSE]

\* the map fires 'load': the handler runs up to its first await
MapLoad ==
    /\ pc = "constructed"
    /\ pc' = "awaitStations"
    /\ mapSources' = mapSources \cup LaneSources
    /\ mapLayers' = mapLayers \cup LaneLayers
    /\ mapListeners' = ListenersBeforeLoad.map
    /\ sliderListener' = ListenersBeforeLoad.slider
    /\ UNCHANGED <<handlerVars, sliderValue, view>>

\* d3.json resolves: stations = stationsJson.data.stations, then await d3.csv
StationsLoaded ==
    /\ pc = "awaitStations"
    /\ \E S \in StationLists : stations' = S
    /\ pc' = "awaitTrips"
    /\ UNCHANGED <<mapSources, mapLayers, trips, sliderValue,
                   currentTimeFilter, selectedTimeText, anyTimeDisplay,
                   radiusDomain, radiusRange, circles, filteredTrips,
                   filteredStations, mapListeners, sliderListener, view,
                   aggregated, positioned>>

\* d3.json rejects (or the document has no data.stations): the handler's
\* promise rejects and nothing after line 144 runs
StationsFailed ==
    /\ pc = "awaitStations"
    /\ pc' = "failed"
    /\ UNCHANGED <<mapSources, mapLayers, handlerVars, sliderValue,
                   mapListeners, sliderListener, view>>

\* d3.csv resolves: lines 149-254 run to the end of the handler
TripsLoaded ==
    /\ pc = "awaitTrips"
    /\ \E rows \in TripRowLists :
         LET loaded == [Handler EXCEPT
                          !.trips = [i \in DOMAIN rows |-> ParseTrip(rows[i])]]
             drawn == DrawCircles(loaded)
             declared == [drawn EXCEPT !.currentTimeFilter = -1]
         IN Commit(updateTimeDisplay(declared, sliderValue))
    /\ mapListeners' = {"move", "zoom", "resize", "moveend"}
    /\ sliderListener' = TRUE
    /\ pc' = "rendered"
    /\ UNCHANGED <<mapSources, mapLayers, sliderValue, view>>

\* a handler that catches the rejection and renders an empty trip log
TripsFailed_fallback ==
    /\ pc = "awaitTrips"
    /\ LET drawn == DrawCircles([Handler EXCEPT !.trips = <<>>])
       IN Commit(updateTimeDisplay(drawn, sliderValue))
    /\ mapListeners' = {"move", "zoom", "resize", "moveend"}
    /\ sliderListener' = TRUE
    /\ pc' = "failed"
    /\ UNCHANGED <<mapSources, mapLayers, sliderValue, view>>

\* d3.csv rejects: the handler's promise rejects and nothing after line 149
\* runs
TripsFailed ==
    /\ pc = "awaitTrips"
    /\ pc' = "failed"
    /\ UNCHANGED <<mapSources, mapLayers, handlerVars, sliderValue,
                   mapListeners, sliderListener, view>>

\* the user moves the slider: its value changes and an 'input' event fires
SliderInput ==
    \E v \in SliderPool :
        /\ v # sliderValue
        /\ sliderValue' = v
        /\ IF sliderListener
           THEN Commit(updateTimeDisplay(Handler, v))
           ELSE UNCHANGED handlerVars
        /\ UNCHANGED <<pc, mapSources, mapLayers, mapListeners,
                       sliderListener, view>>

\* the map fires the events of `fired` after its viewport became v
MapFires(fired, v) ==
    /\ view' = v
    /\ IF fired \cap mapListeners # {}
       THEN /\ circles' = updatePositions(circles, v)
            /\ positioned' = TRUE
       ELSE UNCHANGED <<circles, positioned>>
    /\ UNCHANGED <<pc, mapSources, mapLayers, stations, trips, sliderValue,
                   currentTimeFilter, selectedTimeText, anyTimeDisplay,
                   radiusDomain, radiusRange, filteredTrips, filteredStations,
                   mapListeners, sliderListener, aggregated>>

MapMove ==
    \E p \in 0..MaxPan :
        /\ p # view.pan
        /\ MapFires({"move", "moveend"}, [view EXCEPT !.pan = p])

MapZoom ==
    \E z \in 1..2 :
        /\ z # view.zoom
        /\ MapFires({"move", "zoom", "moveend"}, [view EXCEPT !.zoom = z])

MapResize == MapFires({"resize"}, view)

Next ==
    \/ MapLoad
    \/ StationsLoaded
    \/ StationsFailed
    \/ TripsLoaded
    \/ TripsFailed
    \/ SliderInput
    \/ MapMove
    \/ MapZoom
    \/ MapResize

Spec == Init /\ [][Next]_vars

TypeOK ==
    /\ pc \in {"constructed", "awaitStations", "awaitTrips", "rendered", "failed"}
    /\ sliderValue \in SliderPool
    /\ view \in Views
    /\ Len(circles) <= MaxStations

\* ------------------------------------------------------------ properties

Rendered == pc = "rendered"

\* number of trips of T that leave from / arrive at the station named id
DeparturesIn(T, id) == Cardinality({j \in DOMAIN T : T[j].start_station_id = id})
ArrivalsIn(T, id) == Cardinality({j \in DOMAIN T : T[j].end_station_id = id})

StationNames == {stations[i].short_name : i \in DOMAIN stations}

\* C1: the aggregation of the stations over a trip sequence has one record
\* per station, in the stations' order, carrying the station's own fields,
\* departures = the number of trips starting there, arrivals = the number of
\* trips ending there and totalTraffic = their sum; trips naming no station
\* count nowhere.
C1_AggregateCounts ==
    aggregated =>
        /\ Len(filteredStations) = Len(stations)
        /\ \A i \in DOMAIN stations :
              LET s == filteredStations[i]
                  id == stations[i].short_name
              IN /\ s.short_name = id
                 /\ s.lon = stations[i].lon
                 /\ s.lat = stations[i].lat
                 /\ s.departures = DeparturesIn(filteredTrips, id)
                 /\ s.arrivals = ArrivalsIn(filteredTrips, id)
                 /\ s.totalTraffic = s.arrivals + s.departures

\* a station with two departures and one arrival next to a station without
\* traffic, aggregated over trips of which one starts at an unknown station
C1_Witness ==
    /\ Rendered
    /\ \E i \in DOMAIN filteredStations :
          /\ filteredStations[i].departures = 2
          /\ filteredStations[i].arrivals = 1
          /\ filteredStations[i].totalTraffic = 3
    /\ \E i \in DOMAIN filteredStations : filteredStations[i].totalTraffic = 0
    /\ \E j \in DOMAIN filteredTrips :
          filteredTrips[j].start_station_id \notin StationNames

\* hour * 60 + minute of a parsed timestamp
MinuteOfDay(t) == t.hours * 60 + t.minutes

\* trip lies in the window of f: start or end at most 60 minutes from f
InWindow(trip, f) ==
    \/ (MinuteOfDay(trip.started_at) - f \in -60..60)
    \/ (MinuteOfDay(trip.ended_at) - f \in -60..60)

KeptIndices(T, f) == {i \in DOMAIN T : InWindow(T[i], f)}

\* the k-th smallest element of a set of indices
KthOf(I, k) == CHOOSE i \in I : Cardinality({j \in I : j <= i}) = k

\* C2: for a filter value other than -1 the filtered trips are exactly the
\* trips with start or end within 60 minutes (inclusive) of the filter value,
\* in their original order; no wrap around midnight.
C2_WindowFilter ==
    (Rendered /\ currentTimeFilter # -1) =>
        LET kept == KeptIndices(trips, currentTimeFilter)
        IN /\ Len(filteredTrips) = Cardinality(kept)
           /\ \A k \in DOMAIN filteredTrips :
                 filteredTrips[k] = trips[KthOf(kept, k)]
           /\ (currentTimeFilter = 0 =>
                 \A k \in DOMAIN filteredTrips :
                    ~(/\ MinuteOfDay(filteredTrips[k].started_at) = 1410
                      /\ MinuteOfDay(filteredTrips[k].ended_at) = 1410))

\* filter 600: a trip that starts at 09:00 is kept, one that starts at 08:55
\* and ends at 08:59 is dropped
C2_Witness ==
    /\ Rendered
    /\ currentTimeFilter = 600
    /\ \E k \in DOMAIN filteredTrips :
          /\ MinuteOfDay(filteredTrips[k].started_at) = 540
          /\ MinuteOfDay(filteredTrips[k].ended_at) = 750
    /\ \E i \in DOMAIN trips :
          /\ MinuteOfDay(trips[i].started_at) = 535
          /\ MinuteOfDay(trips[i].ended_at) = 539
          /\ \A k \in DOMAIN filteredTrips : filteredTrips[k] # trips[i]

\* C3: with the filter value -1 the filtered trips are the trip sequence
\* itself, nothing dropped, nothing reordered.
C3_NoFilterIdentity ==
    (Rendered /\ currentTimeFilter = -1) => filteredTrips = trips

\* no filter, and trips at 23:30 and at 09:00 are all kept
C3_Witness ==
    /\ Rendered
    /\ currentTimeFilter = -1
    /\ Len(filteredTrips) >= 2
    /\ \E k \in DOMAIN filteredTrips :
          MinuteOfDay(filteredTrips[k].started_at) = 1410
    /\ \E k \in DOMAIN filteredTrips :
          MinuteOfDay(filteredTrips[k].started_at) = 540

\* what the view must show for the slider's current value
ExpectedTraffic ==
    computeStationTraffic(
        stations, filterTripsByTime(trips, Number(sliderValue))).result

\* C4: once rendered, every station has a circle whose bound counts and
\* tooltip are those of the aggregation of the trips filtered by the slider's
\* current value, whatever values the slider had before.
C4_ViewMatchesSlider ==
    Rendered =>
        /\ Len(circles) = Len(stations)
        /\ \A i \in DOMAIN circles :
              LET e == ExpectedTraffic[i]
              IN /\ circles[i].datum = e
                 /\ circles[i].title =
                       {<<e.totalTraffic, "trips", e.departures, "departures",
                          e.arrivals, "arrivals">>}

\* the slider stands at 600 and a circle shows traffic of a filtered trip
\* set that is smaller than the whole log
C4_Witness ==
    /\ Rendered
    /\ sliderValue = <<"6", "0", "0">>
    /\ Len(filteredTrips) < Len(trips)
    /\ \E i \in DOMAIN circles : circles[i].datum.totalTraffic > 0

StationFields == {"short_name", "lon", "lat"}

\* C5: once loaded, the station list and the trip log never change, and the
\* loaded station records never get arrivals, departures or totalTraffic.
C5_InputsReadOnly ==
    [][/\ (pc \in {"awaitTrips", "rendered", "failed"} => stations' = stations)
       /\ (pc = "rendered" => trips' = trips)
       /\ \A i \in DOMAIN stations' : DOMAIN stations'[i] = StationFields]_vars

\* a rendered view with stations and trips, after a slider event selected a
\* time and the map was moved
C5_Witness ==
    /\ Rendered
    /\ stations # <<>>
    /\ trips # <<>>
    /\ currentTimeFilter # -1
    /\ view.pan # 0
    /\ \A i \in DOMAIN circles : circles[i].datum.short_name = stations[i].short_name

\* C6: nothing is aggregated, no circle exists, no marker is positioned and
\* no slider or map listener is registered until both loads have completed.
C6_AggregationAfterLoads ==
    (\/ aggregated
     \/ positioned
     \/ circles # <<>>
     \/ filteredStations # <<>>
     \/ sliderListener
     \/ mapListeners # {}) => Rendered

\* the slider and the map were moved while the trip load is pending
C6_Witness ==
    /\ pc = "awaitTrips"
    /\ stations # <<>>
    /\ sliderValue # <<"-", "1">>
    /\ view # [pan |-> 0, zoom |-> 1]
    /\ ~aggregated
    /\ ~positioned

\* C7 as stated: after a failed load nothing at all is on the map.
C7_NothingRendered ==
    pc = "failed" =>
        /\ circles = <<>>
        /\ mapListeners = {}
        /\ ~sliderListener
        /\ mapSources = {}
        /\ mapLayers = {}

\* C7: after a failed load there is no circle, no aggregation, no map or
\* slider listener and no second attempt; only the bike-lane source and layer
\* the handler added before it started loading are on the map.
C7_OnlyLanesRendered ==
    /\ [](pc = "failed" =>
            /\ circles = <<>>
            /\ ~aggregated
            /\ ~positioned
            /\ mapListeners = {}
            /\ ~sliderListener
            /\ \E l \in mapLayers : l.id = "boston-bike-lanes"
            /\ \A l \in mapLayers : l.type = "line" /\ l.paint = bikeLanePaint
            /\ \A src \in mapSources : \E l \in mapLayers : l.source = src.id)
    /\ [][pc = "failed" => pc' = "failed"]_vars

\* the trip load failed after the stations had arrived
C7_Witness ==
    /\ pc = "failed"
    /\ stations # <<>>
    /\ mapLayers # {}

\* C8: once rendered the radius range is [0, 25] exactly when the current
\* filter is -1 and [3, 50] exactly when it is not.
C8_RadiusRange ==
    Rendered =>
        /\ currentTimeFilter = Number(sliderValue)
        /\ (radiusRange = <<0, 25>>) <=> (currentTimeFilter = -1)
        /\ (radiusRange = <<3, 50>>) <=> (currentTimeFilter # -1)

\* a time filter is active and the circles are scaled into [3, 50]
C8_Witness ==
    /\ Rendered
    /\ currentTimeFilter = 1380
    /\ radiusRange = <<3, 50>>
    /\ \E i \in DOMAIN circles : circles[i].r.range = <<3, 50>>

\* C9: the colour scale gets departures / totalTraffic, or 0.5 for a station
\* without traffic, and answers 0 below one third, 1 from two thirds on and
\* 0.5 otherwise (buckets in halves: 0, 1, 2).
C9_DepartureBucket ==
    Rendered =>
        \A i \in DOMAIN circles :
            LET d == circles[i].datum
                bucket == circles[i].departureRatio
            IN /\ bucket \in {0, 1, 2}
               /\ d.totalTraffic = 0 => bucket = 1
               /\ d.totalTraffic > 0 =>
                     /\ (3 * d.departures < d.totalTraffic) <=> (bucket = 0)
                     /\ (3 * d.departures >= 2 * d.totalTraffic) <=> (bucket = 2)

\* a station without traffic drawn with bucket 0.5 beside a station whose
\* departures are exactly two thirds of its traffic, drawn with bucket 1
C9_Witness ==
    /\ Rendered
    /\ \E i \in DOMAIN circles :
          /\ circles[i].datum.totalTraffic = 0
          /\ circles[i].departureRatio = 1
    /\ \E i \in DOMAIN circles :
          /\ circles[i].datum.totalTraffic = 3
          /\ circles[i].datum.departures = 2
          /\ circles[i].departureRatio = 2

\* C10: once the load handler has run, the Boston and the Cambridge lanes
\* each have a source and a line layer, both layers with the same paint.
C10_BothLaneLayers ==
    pc # "constructed" =>
        /\ \E src \in mapSources : src.id = "boston_route"
        /\ \E src \in mapSources : src.id = "cambridge_route"
        /\ \E l \in mapLayers :
              l.source = "boston_route" /\ l.type = "line" /\ l.paint = bikeLanePaint
        /\ \E l \in mapLayers :
              l.source = "cambridge_route" /\ l.type = "line" /\ l.paint = bikeLanePaint

====
